---------------------------- MODULE Spec2Model ----------------------------
(***************************************************************************)
(* Model of src/main.py: a polling job that GETs a schedule from a source  *)
(* API, rewrites every game's start_time from America/Argentina/           *)
(* Buenos_Aires to America/Argentina/Cordoba, and upserts the result into  *)
(* one row of a Supabase table, every 30 seconds.                          *)
(*                                                                         *)
(* Text is modelled as a sequence of one-character strings, so that        *)
(* parsing (strptime) and rendering (strftime, isoformat) are computed and *)
(* not assumed.  A civil date-time is a record [day, min]: day is the      *)
(* proleptic Gregorian ordinal (1 = 0001-01-01, as datetime.toordinal) and *)
(* min the minute of the day; the format carries no seconds.               *)
(***************************************************************************)
EXTENDS Integers, Sequences, FiniteSets, TLC

(***************************************************************************)
(* Characters and small helpers                                            *)
(***************************************************************************)
Digits == <<"0", "1", "2", "3", "4", "5", "6", "7", "8", "9">>

IsDigit(c) == \E i \in 1..10 : Digits[i] = c

DigitVal(c) == (CHOOSE i \in 1..10 : Digits[i] = c) - 1

\* \s of the regular expression, over the characters the model uses
IsSpace(c) == c = " "

Pad2(n) == <<Digits[(n \div 10) + 1], Digits[(n % 10) + 1]>>

Pad4(n) == Pad2(n \div 100) \o Pad2(n % 100)

RECURSIVE NumVal(_)
NumVal(cs) ==
    IF cs = <<>> THEN 0
    ELSE 10 * NumVal(SubSeq(cs, 1, Len(cs) - 1)) + DigitVal(cs[Len(cs)])

(***************************************************************************)
(* Calendar (datetime): proleptic Gregorian, years 1..9999                 *)
(***************************************************************************)
IsLeap(y) == (y % 4 = 0) /\ ((y % 100 # 0) \/ (y % 400 = 0))

DaysInMonth(y, m) ==
    IF m = 2 THEN (IF IsLeap(y) THEN 29 ELSE 28)
    ELSE IF m \in {4, 6, 9, 11} THEN 30 ELSE 31

DaysBeforeYear(y) ==
    LET p == y - 1 IN 365 * p + (p \div 4) - (p \div 100) + (p \div 400)

RECURSIVE DaysBeforeMonth(_, _)
DaysBeforeMonth(y, m) ==
    IF m = 1 THEN 0 ELSE DaysBeforeMonth(y, m - 1) + DaysInMonth(y, m - 1)

\* date(y, m, d).toordinal()
Ordinal(y, m, d) == DaysBeforeYear(y) + DaysBeforeMonth(y, m) + d

\* date.fromordinal(n).year, by the 400-, 100-, 4- and 1-year cycles
YearOf(n) ==
    LET n0 == n - 1
        n400 == n0 \div 146097
        r400 == n0 % 146097
        n100 == r400 \div 36524
        r100 == r400 % 36524
        n4 == r100 \div 1461
        r4 == r100 % 1461
        n1 == r4 \div 365
        y == 400 * n400 + 100 * n100 + 4 * n4 + n1 + 1
    IN  IF n1 = 4 \/ n100 = 4 THEN y - 1 ELSE y

MonthOf(y, doy) ==
    CHOOSE m \in 1..12 :
        DaysBeforeMonth(y, m) < doy /\ doy <= DaysBeforeMonth(y, m) + DaysInMonth(y, m)

\* month and day of the doy-th day of year y
MonthDay(y, m, doy) == [Y |-> y, m |-> m, d |-> doy - DaysBeforeMonth(y, m)]

YearDay(y, doy) == MonthDay(y, MonthOf(y, doy), doy)

DateOf(y, n) == YearDay(y, n - DaysBeforeYear(y))

\* the fields of a civil date-time: date.fromordinal(t.day), hour, minute
Civil(t) == [date |-> DateOf(YearOf(t.day), t.day), H |-> t.min \div 60, M |-> t.min % 60]

DT(y, m, d, H, M) == [day |-> Ordinal(y, m, d), min |-> 60 * H + M]

\* datetime + timedelta(minutes = k), -1440 <= k <= 1440
AddMinutes(t, k) ==
    LET s == t.min + k
    IN  IF s < 0 THEN [day |-> t.day - 1, min |-> s + 1440]
        ELSE IF s >= 1440 THEN [day |-> t.day + 1, min |-> s - 1440]
        ELSE [day |-> t.day, min |-> s]

Before(a, b) == a.day < b.day \/ (a.day = b.day /\ a.min < b.min)

(***************************************************************************)
(* datetime.strptime(time_str, "%d-%m-%Y %H:%M")                           *)
(*                                                                         *)
(* strptime compiles the format to a regular expression and matches it     *)
(* with backtracking: each directive is an alternation tried in order, the *)
(* blank of the format is \s+, and text left after the match is an error.  *)
(***************************************************************************)
FormatParts == <<"d", "-", "m", "-", "Y", "s", "H", ":", "M">>

At(s, p) == IF p >= 1 /\ p <= Len(s) THEN s[p] ELSE ""

DigitIn(c, lo, hi) == IsDigit(c) /\ DigitVal(c) >= lo /\ DigitVal(c) <= hi

RECURSIVE SpaceRun(_, _)
SpaceRun(s, p) == IF IsSpace(At(s, p)) THEN 1 + SpaceRun(s, p + 1) ELSE 0

\* the lengths n, n-1, .., 1 (a greedy \s+ gives back one character at a time)
Descending(n) == [i \in 1..n |-> n + 1 - i]

Opt(cond, len) == IF cond THEN <<len>> ELSE <<>>

\* The lengths a part of the format can match at position p, in the order
\* the regular expression tries them.
Cands(part, s, p) ==
    LET a == At(s, p)
        b == At(s, p + 1)
    IN  CASE part = "d" ->
                Opt(a = "3" /\ DigitIn(b, 0, 1), 2)
                \o Opt(DigitIn(a, 1, 2) /\ IsDigit(b), 2)
                \o Opt(a = "0" /\ DigitIn(b, 1, 9), 2)
                \o Opt(DigitIn(a, 1, 9), 1)
                \o Opt(a = " " /\ DigitIn(b, 1, 9), 2)
          [] part = "m" ->
                Opt(a = "1" /\ DigitIn(b, 0, 2), 2)
                \o Opt(a = "0" /\ DigitIn(b, 1, 9), 2)
                \o Opt(DigitIn(a, 1, 9), 1)
          [] part = "Y" ->
                Opt(\A i \in 0..3 : IsDigit(At(s, p + i)), 4)
          [] part = "H" ->
                Opt(a = "2" /\ DigitIn(b, 0, 3), 2)
                \o Opt(DigitIn(a, 0, 1) /\ IsDigit(b), 2)
                \o Opt(IsDigit(a), 1)
          [] part = "M" ->
                Opt(DigitIn(a, 0, 5) /\ IsDigit(b), 2)
                \o Opt(IsDigit(a), 1)
          [] part = "s" -> Descending(SpaceRun(s, p))
          [] OTHER -> Opt(a = part, 1)

NoMatch == [ok |-> FALSE, end |-> 0, caps |-> <<>>]

\* re.match from part i of the format at position p: the alternatives cs of
\* the part are tried from the j-th on, and the first one after which the
\* rest of the format matches is taken.
RECURSIVE MatchFrom(_, _, _, _)
MatchFrom(s, p, i, j) ==
    IF i > Len(FormatParts) THEN [ok |-> TRUE, end |-> p, caps |-> <<>>]
    ELSE LET cs == Cands(FormatParts[i], s, p)
         IN  IF j > Len(cs) THEN NoMatch
             ELSE LET r == MatchFrom(s, p + cs[j], i + 1, 1)
                  IN  IF r.ok
                      THEN [ok |-> TRUE, end |-> r.end,
                            caps |-> <<SubSeq(s, p, p + cs[j] - 1)>> \o r.caps]
                      ELSE MatchFrom(s, p, i, j + 1)

\* int() of a captured group (int ignores the blank of " 5")
IntOf(cs) == NumVal(SelectSeq(cs, IsDigit))

NotParsed == [ok |-> FALSE, t |-> [day |-> 0, min |-> 0]]

\* the date the matched fields name, if there is one (31-02 and year 0
\* are none)
CheckDate(d, m, y, H, M) ==
    IF y < 1 \/ d > DaysInMonth(y, m) THEN NotParsed
    ELSE [ok |-> TRUE, t |-> DT(y, m, d, H, M)]

\* the match f of the format against a text of length n
CheckMatch(f, n) ==
    IF ~f.ok \/ f.end # n + 1 THEN NotParsed
    ELSE CheckDate(IntOf(f.caps[1]), IntOf(f.caps[3]), IntOf(f.caps[5]),
                   IntOf(f.caps[7]), IntOf(f.caps[9]))

\* [ok, t]: ok is FALSE where strptime raises ValueError (no match, text
\* left over, or a date that does not exist).
Strptime(s) == CheckMatch(MatchFrom(s, 1, 1, 1), Len(s))

(***************************************************************************)
(* Rendering: strftime("%d-%m-%Y %H:%M") and isoformat()                   *)
(***************************************************************************)
\* %Y renders the year in four digits from the year 1000 on (glibc does not
\* pad an earlier one); every date the model converts is of 1989 or later.
RenderDate(c) ==
    Pad2(c.date.d) \o <<"-">> \o Pad2(c.date.m) \o <<"-">> \o Pad4(c.date.Y)
    \o <<" ">> \o Pad2(c.H) \o <<":">> \o Pad2(c.M)

Strftime(t) == RenderDate(Civil(t))

\* offset in minutes east of UTC, rendered as +HH:MM or -HH:MM
IsoOffset(off) ==
    LET a == IF off < 0 THEN 0 - off ELSE off
    IN  <<IF off < 0 THEN "-" ELSE "+">> \o Pad2(a \div 60) \o <<":">> \o Pad2(a % 60)

RenderIso(c, off) ==
    Pad4(c.date.Y) \o <<"-">> \o Pad2(c.date.m) \o <<"-">> \o Pad2(c.date.d) \o <<"T">>
    \o Pad2(c.H) \o <<":">> \o Pad2(c.M) \o <<":", "0", "0">> \o IsoOffset(off)

Isoformat(t, off) == RenderIso(Civil(t), off)

(***************************************************************************)
(* pytz: the two zones, localize() and astimezone()                        *)
(*                                                                         *)
(* A zone is its list of transitions: the UTC instant from which an offset *)
(* (minutes east of UTC) and a DST flag apply.  The lists hold the tz      *)
(* database's transitions of both zones from 1988-12-01 on (there is none  *)
(* after 2009-03-15), so the model converts civil times of 1989 and later; *)
(* the two zones differ from 1991-03-03 to 1991-10-20 only.                *)
(***************************************************************************)
Tr(y, m, d, H, off, dst) == [at |-> DT(y, m, d, H, 0), off |-> off, dst |-> dst]

BuenosAires ==
    <<Tr(1988, 12, 1, 3, -120, TRUE),
      Tr(1989, 3, 5, 2, -180, FALSE),
      Tr(1989, 10, 15, 3, -120, TRUE),
      Tr(1990, 3, 4, 2, -180, FALSE),
      Tr(1990, 10, 21, 3, -120, TRUE),
      Tr(1991, 3, 3, 2, -180, FALSE),
      Tr(1991, 10, 20, 3, -120, TRUE),
      Tr(1992, 3, 1, 2, -180, FALSE),
      Tr(1992, 10, 18, 3, -120, TRUE),
      Tr(1993, 3, 7, 2, -180, FALSE),
      Tr(1999, 10, 3, 3, -180, TRUE),
      Tr(2000, 3, 3, 3, -180, FALSE),
      Tr(2007, 12, 30, 3, -120, TRUE),
      Tr(2008, 3, 16, 2, -180, FALSE),
      Tr(2008, 10, 19, 3, -120, TRUE),
      Tr(2009, 3, 15, 2, -180, FALSE)>>

Cordoba ==
    <<Tr(1988, 12, 1, 3, -120, TRUE),
      Tr(1989, 3, 5, 2, -180, FALSE),
      Tr(1989, 10, 15, 3, -120, TRUE),
      Tr(1990, 3, 4, 2, -180, FALSE),
      Tr(1990, 10, 21, 3, -120, TRUE),
      Tr(1991, 3, 3, 2, -240, FALSE),
      Tr(1991, 10, 20, 4, -120, TRUE),
      Tr(1992, 3, 1, 2, -180, FALSE),
      Tr(1992, 10, 18, 3, -120, TRUE),
      Tr(1993, 3, 7, 2, -180, FALSE),
      Tr(1999, 10, 3, 3, -180, TRUE),
      Tr(2000, 3, 3, 3, -180, FALSE),
      Tr(2007, 12, 30, 3, -120, TRUE),
      Tr(2008, 3, 16, 2, -180, FALSE),
      Tr(2008, 10, 19, 3, -120, TRUE),
      Tr(2009, 3, 15, 2, -180, FALSE)>>

\* Mutant: the target zone is UTC.
target_timezone_utc == <<Tr(1988, 12, 1, 3, 0, FALSE)>>

promiedos_timezone == BuenosAires

target_timezone == Cordoba

\* the transition in force at instant t: bisect_right(transitions, t) - 1,
\* and the first one for an earlier t
InfoAt(tz, t) ==
    LET past == {i \in 1..Len(tz) : ~Before(t, tz[i].at)}
    IN  IF past = {} THEN tz[1]
        ELSE tz[CHOOSE i \in past : \A j \in past : j <= i]

Aware(utc, inf) == [utc |-> utc, off |-> inf.off, dst |-> inf.dst]

\* tz.fromutc(utc): an aware date-time [utc, off, dst]
FromUtc(tz, utc) == Aware(utc, InfoAt(tz, utc))

\* the wall clock an aware date-time shows
Wall(a) == AddMinutes(a.utc, a.off)

\* The readings localize() tries: the offsets in force one day before and
\* one day after, each kept if it shows dt on the wall clock.
Possible(tz, dt) ==
    {a \in {FromUtc(tz, AddMinutes(dt, 0 - InfoAt(tz, AddMinutes(dt, k)).off)) :
                k \in {0 - 1440, 1440}} : Wall(a) = dt}

Latest(as) == CHOOSE a \in as : \A b \in as : ~Before(a.utc, b.utc)

\* tz.localize(dt), is_dst = False.  A wall-clock time that never happened
\* (clocks were put forward over it) is read with the offset in force six
\* hours earlier; one that happened twice is read as standard time, or as
\* the later of the two instants when the flag does not tell them apart.
Shifted(a, k) == [utc |-> AddMinutes(a.utc, k), off |-> a.off, dst |-> a.dst]

Standard(ps) == {a \in ps : ~a.dst}

PickStandard(ps, std) ==
    IF Cardinality(std) = 1 THEN CHOOSE a \in std : TRUE
    ELSE Latest(IF std = {} THEN ps ELSE std)

RECURSIVE Localize(_, _)
Resolve(tz, dt, ps) ==
    IF Cardinality(ps) = 1 THEN CHOOSE a \in ps : TRUE
    ELSE IF ps = {} THEN Shifted(Localize(tz, AddMinutes(dt, 0 - 360)), 360)
    ELSE PickStandard(ps, Standard(ps))

Localize(tz, dt) == Resolve(tz, dt, Possible(tz, dt))

\* localize() computes dt - 1 day and dt + 1 day: OverflowError on the
\* first and on the last day datetime can hold
LocalizeOverflows(dt) == dt.day - 1 < 1 \/ dt.day + 1 > Ordinal(9999, 12, 31)

\* aware.astimezone(tz)
Astimezone(a, tz) == FromUtc(tz, a.utc)

(***************************************************************************)
(* Decoded JSON                                                            *)
(*                                                                         *)
(* A field value is absent, a string or some other JSON value ("other": a  *)
(* number, null, ...).  A game and a league are mappings, or some other    *)
(* JSON value where the source sends one.  The records are uniform so that *)
(* any two values can be compared.                                         *)
(***************************************************************************)
Absent == [k |-> "absent", s |-> <<>>]

Str(s) == [k |-> "str", s |-> s]

Other == [k |-> "other", s |-> <<>>]

GameFields ==
    {"id", "start_time", "start_time_original", "start_time_iso_target_tz",
     "start_time_iso"}

NoFields == [n \in GameFields |-> Absent]

\* a game {"id": id, "start_time": st}
Game(id, st) ==
    [k |-> "map", f |-> [NoFields EXCEPT !["id"] = id, !["start_time"] = st]]

\* an element of a games array that is no mapping but null or a number:
\* 'start_time' in game raises TypeError
NotAGame == [k |-> "other", f |-> NoFields]

NoGames == [k |-> "absent", items |-> <<>>]

GameList(gs) == [k |-> "list", items |-> gs]

GamesNotAList == [k |-> "other", items |-> <<>>]

League(id, games) == [k |-> "map", id |-> id, games |-> games]

\* an element of the leagues array that is null or a number: 'games' in
\* league raises TypeError
NotALeague == [k |-> "other", id |-> Absent, games |-> NoGames]

LeagueList(ls) == [k |-> "list", items |-> ls]

\* a "leagues" value that is null or a number: iterating it raises TypeError
LeaguesNull == [k |-> "other", items |-> <<>>]

\* a decoded body: an object with or without the key "leagues", an array,
\* or another JSON value
Object(leagues) == [k |-> "map", has |-> TRUE, leagues |-> leagues]

ObjectWithoutLeagues == [k |-> "map", has |-> FALSE, leagues |-> LeaguesNull]

TopLevelArray == [k |-> "list", has |-> FALSE, leagues |-> LeaguesNull]

TopLevelNumber == [k |-> "other", has |-> FALSE, leagues |-> LeaguesNull]

(***************************************************************************)
(* Exceptions: the classes the cycle can raise, their base classes, and    *)
(* the except clauses in the order the code lists them                     *)
(***************************************************************************)
Base(c) ==
    CASE c = "JSONDecodeError" -> "ValueError"
      [] c = "ValueError" -> "Exception"
      [] c = "KeyError" -> "LookupError"
      [] c = "LookupError" -> "Exception"
      [] c = "TypeError" -> "Exception"
      [] c = "OverflowError" -> "ArithmeticError"
      [] c = "ArithmeticError" -> "Exception"
      [] c = "HTTPStatusError" -> "HTTPError"
      [] c = "ConnectError" -> "RequestError"
      [] c = "ReadTimeout" -> "RequestError"
      [] c = "RequestError" -> "HTTPError"
      [] c = "HTTPError" -> "Exception"
      [] c = "Exception" -> "BaseException"
      [] c = "CancelledError" -> "BaseException"
      [] c = "KeyboardInterrupt" -> "BaseException"
      [] OTHER -> "object"

RECURSIVE IsInstance(_, _)
IsInstance(c, cls) ==
    IF c = cls THEN TRUE
    ELSE IF c = "object" THEN FALSE
    ELSE IsInstance(Base(c), cls)

\* the first clause that catches an exception of class c, or "uncaught"
RECURSIVE FirstClause(_, _, _)
FirstClause(clauses, c, i) ==
    IF i > Len(clauses) THEN "uncaught"
    ELSE IF IsInstance(c, clauses[i]) THEN clauses[i]
    ELSE FirstClause(clauses, c, i + 1)

\* the clauses around one game's conversion
InnerClauses == <<"ValueError", "Exception">>

\* the clauses around the whole cycle
OuterClauses ==
    <<"RequestError", "HTTPStatusError", "JSONDecodeError", "KeyError", "Exception">>

\* Mutant: the conversion of a game is not wrapped in a try.
InnerHandlerAbsent(c) == "uncaught"

InnerHandler(c) == FirstClause(InnerClauses, c, 1)

\* Mutant: the cycle has no catch-all clause.
OuterHandlerNoCatchAll(c) == FirstClause(SubSeq(OuterClauses, 1, 4), c, 1)

OuterHandler(c) == FirstClause(OuterClauses, c, 1)

\* the clauses of the entry point around asyncio.run(main_loop())
EntryClauses == <<"KeyboardInterrupt", "Exception">>

\* Mutant: the entry point catches Exception alone.
EntryHandlerExceptionOnly(c) == FirstClause(SubSeq(EntryClauses, 2, 2), c, 1)

EntryHandler(c) == FirstClause(EntryClauses, c, 1)

\* the line the entry point's clause h prints
EntryMessage(h) ==
    CASE h = "KeyboardInterrupt" -> "Script detenido por el usuario."
      [] h = "Exception" -> "Un error critico ocurrio"
      [] OTHER -> ""

(***************************************************************************)
(* The normalizer                                                          *)
(***************************************************************************)
\* Mutant: the game is rebuilt from the three fields alone.
WriteBackRebuilds(g, time_str, wall, off) ==
    [raised |-> "none",
     game |-> [g EXCEPT !.f =
         [NoFields EXCEPT !["start_time_original"] = Str(time_str),
                          !["start_time"] = Str(Strftime(wall)),
                          !["start_time_iso_target_tz"] = Str(Isoformat(wall, off))]]]

\* the three assignments after a successful conversion
WriteBack(g, time_str, wall, off) ==
    [raised |-> "none",
     game |-> [g EXCEPT !.f =
         [@ EXCEPT !["start_time_original"] = Str(time_str),
                   !["start_time"] = Str(Strftime(wall)),
                   !["start_time_iso_target_tz"] = Str(Isoformat(wall, off))]]]

\* Mutant: the UTC instant is written instead of the target zone's wall clock.
ConvertedAsUtc(g, time_str, converted_dt) == WriteBack(g, time_str, converted_dt.utc, 0)

\* Mutant: the converted time is taken for a source time and converted again.
ConvertedTwice(g, time_str, converted_dt) ==
    WriteBack(g, time_str,
              Wall(Astimezone(Localize(promiedos_timezone, Wall(converted_dt)),
                              target_timezone)),
              converted_dt.off)

Converted(g, time_str, converted_dt) ==
    WriteBack(g, time_str, Wall(converted_dt), converted_dt.off)

\* Mutant: start_time_original is assigned before the string is parsed.
ConvertParsedOriginalFirst(g, time_str, parsed) ==
    IF ~parsed.ok
    THEN [raised |-> "ValueError",
          game |-> [g EXCEPT !.f["start_time_original"] = Str(time_str)]]
    ELSE IF LocalizeOverflows(parsed.t)
    THEN [raised |-> "OverflowError",
          game |-> [g EXCEPT !.f["start_time_original"] = Str(time_str)]]
    ELSE Converted(g, time_str,
                   Astimezone(Localize(promiedos_timezone, parsed.t), target_timezone))

\* after strptime: localize in the source zone, convert to the target zone
ConvertParsed(g, time_str, parsed) ==
    IF ~parsed.ok THEN [raised |-> "ValueError", game |-> g]
    ELSE IF LocalizeOverflows(parsed.t) THEN [raised |-> "OverflowError", game |-> g]
    ELSE Converted(g, time_str,
                   Astimezone(Localize(promiedos_timezone, parsed.t), target_timezone))

\* The body of the inner try for a game whose start_time is the string
\* time_str: parse, localize, convert, then write the three fields.
\* [raised, game]
ConvertString(g, time_str) == ConvertParsed(g, time_str, Strptime(time_str))

ConvertGame(g) == ConvertString(g, g.f["start_time"].s)

\* the warning the inner except clause h prints
WarningOf(h) == IF h = "ValueError" THEN "parse" ELSE "unexpected"

\* the inner except clauses, for the result c of the inner try
InnerCatch(c, h) ==
    IF c.raised = "none" THEN [raised |-> "none", game |-> c.game, warnings |-> <<>>]
    ELSE IF h = "uncaught" THEN [raised |-> c.raised, game |-> c.game, warnings |-> <<>>]
    ELSE [raised |-> "none", game |-> c.game, warnings |-> <<WarningOf(h)>>]

TryConvert(c) == InnerCatch(c, InnerHandler(c.raised))

\* One game of the inner loop.  [raised, game, warnings]: raised is the
\* class of an exception that leaves the loops, warnings the warnings
\* printed ("parse" by the ValueError clause, "unexpected" by the other).
NormalizeGame(g) ==
    IF g.k # "map" THEN [raised |-> "TypeError", game |-> g, warnings |-> <<>>]
    ELSE IF g.f["start_time"].k # "str" THEN [raised |-> "none", game |-> g, warnings |-> <<>>]
    ELSE TryConvert(ConvertGame(g))

\* a result r for one item followed by the result for the items after it
Then(r, rest) ==
    [raised |-> rest.raised, items |-> rest.items, warnings |-> r.warnings \o rest.warnings]

\* for game in league['games'], from the i-th game on
RECURSIVE NormalizeGames(_, _)
GamesAfter(gs, i, r) ==
    IF r.raised # "none"
    THEN [raised |-> r.raised, items |-> [gs EXCEPT ![i] = r.game], warnings |-> r.warnings]
    ELSE Then(r, NormalizeGames([gs EXCEPT ![i] = r.game], i + 1))

NormalizeGames(gs, i) ==
    IF i > Len(gs) THEN [raised |-> "none", items |-> gs, warnings |-> <<>>]
    ELSE GamesAfter(gs, i, NormalizeGame(gs[i]))

\* Mutant: the games list is rebuilt from the games that were converted.
LeagueWithConvertedOnly(l, r) ==
    [raised |-> r.raised,
     league |-> [l EXCEPT !.games =
         GameList(SelectSeq(r.items, LAMBDA g : g.f["start_time_original"].k = "str"))],
     warnings |-> r.warnings]

LeagueWith(l, r) ==
    [raised |-> r.raised, league |-> [l EXCEPT !.games = GameList(r.items)],
     warnings |-> r.warnings]

\* One league of the outer loop: skipped unless it has a games list.
NormalizeLeague(l) ==
    IF l.k # "map" THEN [raised |-> "TypeError", league |-> l, warnings |-> <<>>]
    ELSE IF l.games.k # "list" THEN [raised |-> "none", league |-> l, warnings |-> <<>>]
    ELSE LeagueWith(l, NormalizeGames(l.games.items, 1))

\* for league in data_to_store, from the i-th league on
RECURSIVE NormalizeLeagues(_, _)
LeaguesAfter(ls, i, r) ==
    IF r.raised # "none"
    THEN [raised |-> r.raised, items |-> [ls EXCEPT ![i] = r.league], warnings |-> r.warnings]
    ELSE Then(r, NormalizeLeagues([ls EXCEPT ![i] = r.league], i + 1))

NormalizeLeagues(ls, i) ==
    IF i > Len(ls) THEN [raised |-> "none", items |-> ls, warnings |-> <<>>]
    ELSE LeaguesAfter(ls, i, NormalizeLeague(ls[i]))

DataOf(r) == [raised |-> r.raised, data |-> LeagueList(r.items), warnings |-> r.warnings]

\* The time-zone conversion of data_to_store.  [raised, data, warnings]
Normalize(leagues) ==
    IF leagues.k # "list" THEN [raised |-> "TypeError", data |-> leagues, warnings |-> <<>>]
    ELSE DataOf(NormalizeLeagues(leagues.items, 1))

(***************************************************************************)
(* Configuration and start-up                                              *)
(***************************************************************************)
ConfigVars ==
    {"SUPABASE_URL_BASE", "SUPABASE_TABLE_NAME", "SUPABASE_SERVICE_ROLE_KEY",
     "API_TO_CONSULT"}

\* os.getenv(name): None when unset, else the string, which may be empty
EnvValues == {"None", "empty", "set"}

Truthy(v) == v = "set"

\* Mutant: any() instead of all().
ConfigCompleteAny(e) == \E n \in ConfigVars : Truthy(e[n])

\* all([...]) of the four values
ConfigComplete(e) == \A n \in ConfigVars : Truthy(e[n])

\* missing_vars: the names whose value is None
MissingVars(e) == {n \in ConfigVars : e[n] = "None"}

(***************************************************************************)
(* Requests, the store payload and the store                               *)
(***************************************************************************)
NoPayload ==
    [id |-> "", data |-> LeaguesNull, updated_at |-> [tick |-> 0, offset |-> <<>>]]

\* datetime.now(timezone.utc).isoformat() at clock reading tick
UtcNowIso(tick) == [tick |-> tick, offset |-> IsoOffset(0)]

\* Mutant: the row id is made from the time of the cycle.
PayloadFreshId(data, tick) ==
    [id |-> IF tick % 2 = 0 THEN "test" ELSE "test-1", data |-> data,
     updated_at |-> UtcNowIso(tick)]

Payload(data, tick) == [id |-> "test", data |-> data, updated_at |-> UtcNowIso(tick)]

NoRequest ==
    [method |-> "", url |-> "", timeout |-> 0, agent |-> "", prefer |-> "",
     apikey |-> "", body |-> NoPayload]

GetRequest ==
    [method |-> "GET", url |-> "API_TO_CONSULT", timeout |-> 30,
     agent |-> "Mozilla/5.0", prefer |-> "", apikey |-> "", body |-> NoPayload]

PostRequest(payload) ==
    [method |-> "POST", url |-> "SUPABASE_URL_BASE/rest/v1/SUPABASE_TABLE_NAME",
     timeout |-> 10, agent |-> "", prefer |-> "resolution=merge-duplicates",
     apikey |-> "SUPABASE_SERVICE_ROLE_KEY", body |-> payload]

\* The table on receiving a POST: with merge-duplicates the row of the same
\* id is replaced; without it a duplicate id is refused with 409.
StoreApply(rows, req) ==
    LET same == {r \in rows : r.id = req.body.id}
    IN  IF req.prefer = "resolution=merge-duplicates"
        THEN [rows |-> (rows \ same) \cup {req.body}, status |-> 201]
        ELSE IF same # {} THEN [rows |-> rows, status |-> 409]
        ELSE [rows |-> rows \cup {req.body}, status |-> 201]

\* response.raise_for_status()
IsSuccess(status) == status >= 200 /\ status <= 299

(***************************************************************************)
(* What the source can answer                                              *)
(***************************************************************************)
NoJson == TopLevelNumber

Response(status, kind, json) == [status |-> status, body |-> [k |-> kind, json |-> json]]

NoResponse == Response(0, "none", NoJson)

Unreachable == Response(0, "unreachable", NoJson)

JsonResponse(json) == Response(200, "json", json)

\* start_time strings of the sample answers
T_E2E == <<"1", "5", "-", "0", "3", "-", "2", "0", "2", "4", " ", "2", "0", ":", "0", "0">>

T_BadDate == <<"3", "1", "-", "0", "2", "-", "2", "0", "2", "4", " ", "9", "9", ":", "9", "9">>

T_NotADate == <<"n", "o", "t", "-", "a", "-", "d", "a", "t", "e">>

T_Unpadded == <<"1", "-", "3", "-", "2", "0", "2", "4", " ", "5", ":", "0", "7">>

T_Gap == <<"3", "0", "-", "1", "2", "-", "2", "0", "0", "7", " ", "0", "0", ":", "3", "0">>

T_Winter91 == <<"0", "1", "-", "0", "6", "-", "1", "9", "9", "1", " ", "1", "2", ":", "0", "0">>

T_FirstDay == <<"0", "1", "-", "0", "1", "-", "0", "0", "0", "1", " ", "0", "0", ":", "0", "0">>

T_LastDay == <<"3", "1", "-", "1", "2", "-", "9", "9", "9", "9", " ", "2", "3", ":", "5", "9">>

T_Evening == <<"2", "0", "-", "1", "0", "-", "2", "0", "2", "4", " ", "2", "1", ":", "3", "0">>

L1 == Str(<<"L", "1">>)

L2 == Str(<<"L", "2">>)

G1 == Str(<<"G", "1">>)

G2 == Str(<<"G", "2">>)

G3 == Str(<<"G", "3">>)

\* {"leagues":[{"id":"L1","games":[{"id":"G1","start_time":"15-03-2024 20:00"}]}]}
EndToEndJson ==
    Object(LeagueList(<<League(L1, GameList(<<Game(G1, Str(T_E2E))>>))>>))

\* two start times that do not parse, then one that does
MalformedJson ==
    Object(LeagueList(<<League(L1, GameList(
        <<Game(G1, Str(T_BadDate)), Game(G2, Str(T_NotADate)),
          Game(G3, Str(T_Evening))>>))>>))

\* a league without games, then games with an unpadded, an absent and a
\* non-string start_time
MixedJson ==
    Object(LeagueList(
        <<League(L1, NoGames),
          League(L2, GameList(
              <<Game(G1, Str(T_Unpadded)), Game(G2, Absent), Game(G3, Other)>>))>>))

\* a civil time the source zone skipped, and one of the months of 1991 in
\* which the two zones differ
HistoricJson ==
    Object(LeagueList(<<League(L1, GameList(
        <<Game(G1, Str(T_Gap)), Game(G2, Str(T_Winter91))>>))>>))

\* the first and the last day datetime can hold
ExtremesJson ==
    Object(LeagueList(<<League(L1, GameList(
        <<Game(G1, Str(T_FirstDay)), Game(G2, Str(T_LastDay))>>))>>))

\* a game that already carries a field named start_time_original
ClashJson ==
    Object(LeagueList(<<League(L1, GameList(
        <<[k |-> "map",
           f |-> [NoFields EXCEPT !["id"] = G1, !["start_time"] = Str(T_Evening),
                                  !["start_time_original"] = Str(T_E2E)]]>>))>>))

GamesNotAListJson == Object(LeagueList(<<League(L1, GamesNotAList)>>))

NotALeagueJson ==
    Object(LeagueList(<<League(L1, GameList(<<Game(G1, Str(T_E2E))>>)), NotALeague>>))

NotAGameJson ==
    Object(LeagueList(<<League(L1, GameList(<<Game(G1, Str(T_E2E)), NotAGame>>))>>))

SampleJson ==
    {EndToEndJson, MalformedJson, MixedJson, HistoricJson, ExtremesJson, ClashJson,
     GamesNotAListJson, NotALeagueJson, NotAGameJson,
     Object(LeagueList(<<>>)), Object(LeaguesNull),
     ObjectWithoutLeagues, TopLevelArray, TopLevelNumber}

\* the answers of the source API the loop is run against
SourceResponses ==
    {JsonResponse(j) : j \in SampleJson}
    \cup {Response(200, "empty", NoJson), Response(200, "blank", NoJson),
          Response(200, "text", NoJson), Response(404, "text", NoJson),
          Response(500, "empty", NoJson)}

(***************************************************************************)
(* The process                                                             *)
(***************************************************************************)
MaxCycles == 3

SleepSeconds == 30

VARIABLES
    env,            \* the four configuration values read at import
    pc,             \* "startup", "loop" (about to run a cycle), "get" and
                    \* "post" (a request awaited), "sleep", "exited",
                    \* "stopped" (operator interrupt), "crashed"
    exitCode,       \* the exit status, -1 while the process runs
    missingPrinted, \* the names the start-up error message lists
    printed,        \* the last line the entry point printed, "" if none
    now,            \* clock reading, one step per cycle
    sessions,       \* the httpx.AsyncClient blocks that are open
    inflight,       \* the request awaited, or NoRequest
    fetched,        \* this cycle's answer of the source, or NoResponse
    outcome,        \* this cycle: "none", "ok", or the except clause that ran
    warnings,       \* the per-game warnings this cycle printed
    lastOutcome,    \* the outcome of the cycle before this one
    lastPosts,      \* POSTs issued in the cycle before this one
    gets,           \* GETs issued in this cycle
    posts,          \* POSTs issued in this cycle
    sent,           \* the body of this cycle's POST, or NoPayload
    store,          \* the rows of the table
    storeBefore,    \* the rows of the table when this cycle began
    applied,        \* the body of the last POST the table accepted
    waited,         \* seconds slept since the last cycle ended
    arg,            \* a value handed to the normalizer on its own
    res             \* what the normalizer made of arg

vars ==
    <<env, pc, exitCode, missingPrinted, printed, now, sessions, inflight, fetched, outcome,
      warnings, lastOutcome, lastPosts, gets, posts, sent, store, storeBefore, applied, waited,
      arg, res>>

NoResult == [done |-> FALSE, raised |-> "none", data |-> LeaguesNull, warnings |-> <<>>]

Init ==
    /\ env \in [ConfigVars -> EnvValues]
    /\ pc = "startup"
    /\ exitCode = -1
    /\ missingPrinted = {}
    /\ printed = ""
    /\ now = 0
    /\ sessions = {}
    /\ inflight = NoRequest
    /\ fetched = NoResponse
    /\ outcome = "none"
    /\ warnings = <<>>
    /\ lastOutcome = "none"
    /\ lastPosts = 0
    /\ gets = 0
    /\ posts = 0
    /\ sent = NoPayload
    /\ store = {}
    /\ storeBefore = {}
    /\ applied = NoPayload
    /\ waited = 0
    /\ arg = LeaguesNull
    /\ res = NoResult

\* async with httpx.AsyncClient() as client: the block is entered
OpenSession(open, name) == open \cup {name}

\* Mutant: the client of a block is never closed.
CloseSessionLeak(open, name) == open

\* the block is left: the client is closed
CloseSession(open, name) == open \ {name}

\* Import of the module: the configuration is validated, then main_loop
\* is entered or the process exits with status 1.
Startup ==
    /\ pc = "startup"
    /\ IF ConfigComplete(env)
       THEN /\ pc' = "loop"
            /\ UNCHANGED <<exitCode, missingPrinted, printed>>
       ELSE /\ pc' = "exited"
            /\ exitCode' = 1
            /\ missingPrinted' = MissingVars(env)
            /\ UNCHANGED printed
    /\ UNCHANGED <<env, now, sessions, inflight, fetched, outcome, warnings,
                   lastOutcome, lastPosts, gets, posts, sent, store, storeBefore, applied, waited,
                   arg, res>>

\* perform_api_and_supabase_action() is called and awaits client.get
BeginCycle ==
    /\ pc = "loop"
    /\ now < MaxCycles
    /\ now' = now + 1
    /\ pc' = "get"
    /\ sessions' = OpenSession(sessions, "get")
    /\ inflight' = GetRequest
    /\ fetched' = NoResponse
    /\ outcome' = "none"
    /\ warnings' = <<>>
    /\ lastOutcome' = outcome
    /\ lastPosts' = posts
    /\ gets' = 1
    /\ posts' = 0
    /\ sent' = NoPayload
    /\ storeBefore' = store
    /\ UNCHANGED <<env, exitCode, missingPrinted, printed, store, applied, waited, arg, res>>

\* Mutant: a failed cycle is retried at once, without the sleep.
AfterCycleRetryNow(o) == IF o = "ok" THEN "sleep" ELSE "loop"

\* Mutant: a failed cycle awaits its GET again.
AfterCycleTryAgain(o) == IF o = "ok" THEN "sleep" ELSE "get"

\* where main_loop goes once the cycle has ended with outcome o
AfterCycle(o) == "sleep"

\* An exception of class c raised inside the try of the cycle: the first
\* matching except clause prints, the function returns and main_loop goes
\* on to its sleep; an exception no clause catches leaves main_loop.
Raise(c) ==
    LET h == OuterHandler(c)
    IN  /\ sessions' = {}
        /\ inflight' = NoRequest
        /\ waited' = 0
        /\ IF h = "uncaught"
           THEN /\ pc' = "crashed"
                /\ exitCode' = 0
                /\ printed' = EntryMessage(EntryHandler(c))
                /\ UNCHANGED outcome
           ELSE /\ pc' = AfterCycle(h)
                /\ outcome' = h
                /\ UNCHANGED <<exitCode, printed>>

\* client.get raises: no connection, or the 30 s timeout
GetFails(c) ==
    /\ pc = "get"
    /\ fetched' = Unreachable
    /\ Raise(c)
    /\ UNCHANGED <<env, missingPrinted, now, warnings, lastOutcome, lastPosts, gets, posts, sent,
                   store, storeBefore, applied, arg, res>>

\* Mutant: a missing "leagues" key is read as an empty list (dict.get).
FetchOutcomeDefaultLeagues(r) ==
    LET fail(c) == [raised |-> c, data |-> LeaguesNull, warnings |-> <<>>]
    IN  IF ~IsSuccess(r.status) THEN fail("HTTPStatusError")
        ELSE IF r.body.k \in {"empty", "blank"} THEN fail("ValueError")
        ELSE IF r.body.k # "json" THEN fail("JSONDecodeError")
        ELSE IF r.body.json.k = "other" THEN fail("TypeError")
        ELSE IF ~r.body.json.has THEN Normalize(LeagueList(<<>>))
        ELSE Normalize(r.body.json.leagues)

\* Mutant: the body is decoded without the check for an empty one.
FetchOutcomeNoEmptyCheck(r) ==
    LET fail(c) == [raised |-> c, data |-> LeaguesNull, warnings |-> <<>>]
    IN  IF ~IsSuccess(r.status) THEN fail("HTTPStatusError")
        ELSE IF r.body.k # "json" THEN fail("JSONDecodeError")
        ELSE IF r.body.json.k = "other" THEN fail("TypeError")
        ELSE IF ~r.body.json.has THEN fail("KeyError")
        ELSE Normalize(r.body.json.leagues)

\* From the answer of the source to the data to store: status check, empty
\* body check, decoding, the leagues key, the conversion.
\* [raised, data, warnings]
FetchOutcome(r) ==
    LET fail(c) == [raised |-> c, data |-> LeaguesNull, warnings |-> <<>>]
    IN  IF ~IsSuccess(r.status) THEN fail("HTTPStatusError")
        ELSE IF r.body.k \in {"empty", "blank"} THEN fail("ValueError")
        ELSE IF r.body.k # "json" THEN fail("JSONDecodeError")
        ELSE IF r.body.json.k = "other" THEN fail("TypeError")
        ELSE IF ~r.body.json.has THEN fail("KeyError")
        ELSE Normalize(r.body.json.leagues)

\* The first block ended with o: an exception goes to its except clause;
\* otherwise the payload is built and client.post is awaited in a second
\* client block.
Proceed(o) ==
    /\ warnings' = o.warnings
    /\ IF o.raised # "none"
       THEN /\ Raise(o.raised)
            /\ UNCHANGED <<posts, sent>>
       ELSE /\ pc' = "post"
            /\ sessions' = OpenSession(CloseSession(sessions, "get"), "post")
            /\ inflight' = PostRequest(Payload(o.data, now))
            /\ sent' = Payload(o.data, now)
            /\ posts' = posts + 1
            /\ UNCHANGED <<outcome, waited, exitCode, printed>>

\* client.get returns r and the rest of the cycle runs up to its next await.
GetResponds(r) ==
    /\ pc = "get"
    /\ fetched' = r
    /\ Proceed(FetchOutcome(r))
    /\ UNCHANGED <<env, missingPrinted, now, lastOutcome, lastPosts, gets, store, storeBefore,
                   applied, arg, res>>

\* The table processes the POST and its answer arrives.
PostResponds ==
    /\ pc = "post"
    /\ LET a == StoreApply(store, inflight)
       IN  /\ store' = a.rows
           /\ applied' = IF IsSuccess(a.status) THEN inflight.body ELSE applied
           /\ IF IsSuccess(a.status)
              THEN /\ pc' = AfterCycle("ok")
                   /\ outcome' = "ok"
                   /\ sessions' = CloseSession(sessions, "post")
                   /\ inflight' = NoRequest
                   /\ waited' = 0
                   /\ UNCHANGED <<exitCode, printed>>
              ELSE Raise("HTTPStatusError")
    /\ UNCHANGED <<env, missingPrinted, now, fetched, warnings, lastOutcome, lastPosts, gets,
                   posts, sent, storeBefore, arg, res>>

\* The store answers with an error status and writes nothing.
PostRejected(status) ==
    /\ pc = "post"
    /\ ~IsSuccess(status)
    /\ Raise("HTTPStatusError")
    /\ UNCHANGED <<env, missingPrinted, now, fetched, warnings, lastOutcome, lastPosts, gets,
                   posts, sent, store, storeBefore, applied, arg, res>>

\* client.post raises before the request reaches the table.
PostFails(c) ==
    /\ pc = "post"
    /\ Raise(c)
    /\ UNCHANGED <<env, missingPrinted, now, fetched, warnings, lastOutcome, lastPosts, gets,
                   posts, sent, store, storeBefore, applied, arg, res>>

\* The table processes the POST but its answer does not arrive within the
\* 10 s timeout.
PostAnswerLost ==
    /\ pc = "post"
    /\ LET a == StoreApply(store, inflight)
       IN  /\ store' = a.rows
           /\ applied' = IF IsSuccess(a.status) THEN inflight.body ELSE applied
    /\ Raise("ReadTimeout")
    /\ UNCHANGED <<env, missingPrinted, now, fetched, warnings, lastOutcome, lastPosts, gets,
                   posts, sent, storeBefore, arg, res>>

\* await asyncio.sleep(30) returns
SleepDone ==
    /\ pc = "sleep"
    /\ waited' = waited + SleepSeconds
    /\ pc' = "loop"
    /\ UNCHANGED <<env, exitCode, missingPrinted, printed, now, sessions, inflight, fetched,
                   outcome, warnings, lastOutcome, lastPosts, gets, posts, sent, store,
                   storeBefore, applied, arg, res>>

\* Ctrl+C while main_loop runs: the task is cancelled at its await, the
\* client block is left, asyncio.run raises KeyboardInterrupt and the entry
\* point prints that the script was stopped.
Interrupt ==
    /\ pc \in {"loop", "get", "post", "sleep"}
    /\ pc' = "stopped"
    /\ exitCode' = (IF EntryHandler("KeyboardInterrupt") = "uncaught" THEN 130 ELSE 0)
    /\ printed' = EntryMessage(EntryHandler("KeyboardInterrupt"))
    /\ sessions' = {}
    /\ inflight' = NoRequest
    /\ UNCHANGED <<env, missingPrinted, now, fetched, outcome, warnings, lastOutcome, lastPosts,
                   gets, posts, sent, store, storeBefore, applied, waited, arg, res>>

NetworkErrors == {"ConnectError", "ReadTimeout"}

ErrorStatuses == {400, 500}

Next ==
    \/ Startup
    \/ BeginCycle
    \/ \E c \in NetworkErrors : GetFails(c)
    \/ \E r \in SourceResponses : GetResponds(r)
    \/ PostResponds
    \/ \E s \in ErrorStatuses : PostRejected(s)
    \/ \E c \in NetworkErrors : PostFails(c)
    \/ PostAnswerLost
    \/ SleepDone
    \/ Interrupt

Spec == Init /\ [][Next]_vars

\* What the fairness of the loop rests on: asyncio.sleep(30) returns, and
\* main_loop then calls the next cycle.
FairSpec == Spec /\ WF_vars(SleepDone) /\ WF_vars(BeginCycle)

(***************************************************************************)
(* The normalizer on its own: one league with one game whose start_time    *)
(* is put together from day, month, year, blank, hour and minute texts,    *)
(* well-formed and not.                                                    *)
(***************************************************************************)
DayTexts == {<<"1">>, <<"0", "1">>, <<"1", "5">>, <<"2", "9">>, <<"3", "0">>,
             <<"3", "1">>, <<"3", "2">>}

MonthTexts == {<<"2">>, <<"0", "2">>, <<"0", "3">>, <<"1", "0">>, <<"1", "2">>,
               <<"1", "3">>}

YearTexts == {<<"1", "9", "9", "1">>, <<"2", "0", "0", "7">>, <<"2", "0", "2", "4">>,
              <<"0", "0", "0", "0">>}

BlankTexts == {<<" ">>, <<"T">>}

HourTexts == {<<"0">>, <<"0", "0">>, <<"1", "2">>, <<"2", "3">>, <<"2", "4">>}

MinuteTexts == {<<"0", "0">>, <<"3", "0">>, <<"5", "9">>, <<"6", "0">>}

TimeTexts ==
    {d \o <<"-">> \o m \o <<"-">> \o y \o b \o h \o <<":">> \o mi :
        d \in DayTexts, m \in MonthTexts, y \in YearTexts, b \in BlankTexts,
        h \in HourTexts, mi \in MinuteTexts}

OneGame(s) == LeagueList(<<League(L1, GameList(<<Game(G1, Str(s))>>))>>)

PureInputs == {OneGame(s) : s \in TimeTexts}

PureInit ==
    /\ env = [n \in ConfigVars |-> "set"]
    /\ pc = "pure"
    /\ exitCode = -1
    /\ missingPrinted = {}
    /\ printed = ""
    /\ now = 0
    /\ sessions = {}
    /\ inflight = NoRequest
    /\ fetched = NoResponse
    /\ outcome = "none"
    /\ warnings = <<>>
    /\ lastOutcome = "none"
    /\ lastPosts = 0
    /\ gets = 0
    /\ posts = 0
    /\ sent = NoPayload
    /\ store = {}
    /\ storeBefore = {}
    /\ applied = NoPayload
    /\ waited = 0
    /\ arg \in PureInputs
    /\ res = NoResult

Done(r) == [done |-> TRUE, raised |-> r.raised, data |-> r.data, warnings |-> r.warnings]

\* the conversion loop of the cycle, applied to arg
ApplyNormalize ==
    /\ pc = "pure"
    /\ ~res.done
    /\ res' = Done(Normalize(arg))
    /\ UNCHANGED <<env, pc, exitCode, missingPrinted, printed, now, sessions, inflight, fetched,
                   outcome, warnings, lastOutcome, lastPosts, gets, posts, sent, store,
                   storeBefore, applied, waited, arg>>

PureNext == ApplyNormalize

PureSpec == PureInit /\ [][PureNext]_vars

(***************************************************************************)
(* Properties                                                              *)
(***************************************************************************)
\* this cycle's answer of the source was decoded
GotJson == IsSuccess(fetched.status) /\ fetched.body.k = "json"

Json == fetched.body.json

\* the cycle is over: main_loop sleeps, or is about to run the next cycle,
\* or the operator stopped the process after it
CycleOver == pc \in {"sleep", "loop", "stopped"}

\* every league and every game of the decoded answer is a mapping
WellFormed(j) ==
    /\ j.k = "map"
    /\ j.has
    /\ j.leagues.k = "list"
    /\ \A i \in 1..Len(j.leagues.items) :
          /\ j.leagues.items[i].k = "map"
          /\ \A n \in 1..Len(j.leagues.items[i].games.items) :
                j.leagues.items[i].games.items[n].k = "map"

\* the positions <<league, game>> of the games of a leagues list
GamePositions(ls) ==
    UNION {{<<i, n>> : n \in 1..Len(ls[i].games.items)} : i \in 1..Len(ls)}

GameAt(ls, p) == ls[p[1]].games.items[p[2]]

HasTimeString(g) == g.k = "map" /\ g.f["start_time"].k = "str"

Unparsable(g) == HasTimeString(g) /\ ~Strptime(g.f["start_time"].s).ok

Convertible(g) ==
    /\ HasTimeString(g)
    /\ Strptime(g.f["start_time"].s).ok
    /\ ~LocalizeOverflows(Strptime(g.f["start_time"].s).t)

EndsWith(s, suffix) ==
    Len(s) >= Len(suffix) /\ SubSeq(s, Len(s) - Len(suffix) + 1, Len(s)) = suffix

\* C1: in a cycle whose decoded answer (a JSON object or array) lacks the
\* key "leagues", the missing-key clause (except KeyError) ends the cycle
\* before any store call: no POST is issued and the rows of the table are
\* as they were when the cycle began.
C1_MissingKeyNoStoreCall ==
    (GotJson /\ Json.k \in {"map", "list"} /\ ~Json.has) =>
        /\ outcome = "KeyError"
        /\ posts = 0
        /\ sent = NoPayload
        /\ inflight.method # "POST"
        /\ store = storeBefore
        /\ CycleOver

C1_Witness ==
    /\ fetched = JsonResponse(ObjectWithoutLeagues)
    /\ pc = "sleep"
    /\ store # {}

\* C2: every error raised inside a cycle is caught by one of the cycle's
\* except clauses: the cycle ends and the loop goes on to its sleep; the
\* process never ends on such an error.  It ends only with status 1 at
\* start-up, before any cycle, when the configuration is incomplete, or
\* on an operator interrupt.
C2_ErrorsEndTheCycleOnly ==
    /\ pc # "crashed"
    /\ (outcome \notin {"none", "ok"}) => CycleOver
    /\ (exitCode # -1) <=> (pc \in {"exited", "stopped"})
    /\ (pc = "exited") => (~ConfigComplete(env) /\ exitCode = 1 /\ now = 0)

C2_Witness ==
    /\ fetched = JsonResponse(NotALeagueJson)
    /\ outcome = "Exception"
    /\ pc = "sleep"
    /\ exitCode = -1

\* C3: a cycle, whatever its outcome, is left only for the sleep (or by an
\* operator interrupt); a cycle other than the first starts only from the
\* loop after one sleep of 30 seconds; and from the sleep, unless the
\* operator interrupts, the next cycle eventually starts.
C3_DelayThenNextCycle ==
    /\ [][(pc \in {"get", "post"} /\ pc' \notin {"get", "post"})
            => pc' \in {"sleep", "stopped"}]_vars
    /\ [][(pc' = "get" /\ pc # "get")
            => (pc = "loop" /\ (now = 0 \/ waited = SleepSeconds))]_vars
    /\ []((pc = "sleep" /\ now < MaxCycles) => <>(pc \in {"get", "stopped"}))

C3_Witness ==
    /\ pc = "get"
    /\ lastOutcome = "HTTPStatusError"
    /\ lastPosts = 1
    /\ waited = SleepSeconds

\* C4: in an answer whose leagues and games are mappings, a game whose
\* start_time is a string that does not parse is sent to the store as it
\* was (no field added or changed), one parse warning is printed for each
\* such game, the games that can be converted are converted all the same,
\* and the cycle issues its POST.
C4_UnparsableGameLeftAsIs ==
    (GotJson /\ WellFormed(Json)) =>
        /\ posts = 1
        /\ sent.data.k = "list"
        /\ Len(sent.data.items) = Len(Json.leagues.items)
        /\ \A p \in GamePositions(Json.leagues.items) :
              /\ Unparsable(GameAt(Json.leagues.items, p))
                    => GameAt(sent.data.items, p) = GameAt(Json.leagues.items, p)
              /\ Convertible(GameAt(Json.leagues.items, p))
                    => GameAt(sent.data.items, p).f["start_time_original"]
                           = GameAt(Json.leagues.items, p).f["start_time"]
        /\ Len(SelectSeq(warnings, LAMBDA w : w = "parse"))
              = Cardinality({p \in GamePositions(Json.leagues.items) :
                                Unparsable(GameAt(Json.leagues.items, p))})

C4_Witness ==
    /\ fetched = JsonResponse(MalformedJson)
    /\ pc = "post"
    /\ inflight.body.data.items[1].games.items[1] = Game(G1, Str(T_BadDate))
    /\ inflight.body.data.items[1].games.items[2] = Game(G2, Str(T_NotADate))
    /\ warnings = <<"parse", "parse">>

\* C5: when one of the four configuration values is unset at start-up, the
\* process exits with status 1 without entering the loop: no cycle is
\* run, no GET and no POST is issued.
C5_MissingConfigRefusesStart ==
    (MissingVars(env) # {}) =>
        /\ pc \in {"startup", "exited"}
        /\ (pc = "exited") => (exitCode = 1)
        /\ now = 0
        /\ gets = 0
        /\ posts = 0
        /\ inflight = NoRequest
        /\ sessions = {}
        /\ store = {}

C5_Witness ==
    /\ MissingVars(env) = {"API_TO_CONSULT"}
    /\ pc = "exited"
    /\ exitCode = 1

\* two leagues lists with the same leagues, in order, each with the same
\* games, in order
SameShape(a, b) ==
    /\ a.k = "list"
    /\ b.k = "list"
    /\ Len(a.items) = Len(b.items)
    /\ \A i \in 1..Len(a.items) :
          /\ a.items[i].k = b.items[i].k
          /\ a.items[i].id = b.items[i].id
          /\ a.items[i].games.k = b.items[i].games.k
          /\ Len(a.items[i].games.items) = Len(b.items[i].games.items)
          /\ \A n \in 1..Len(a.items[i].games.items) :
                /\ a.items[i].games.items[n].k = b.items[i].games.items[n].k
                /\ a.items[i].games.items[n].f["id"] = b.items[i].games.items[n].f["id"]

\* C6: for an answer with a leagues array whose leagues and games are
\* mappings, the leagues sent to the store are the leagues of the answer,
\* in the same order, each with the same games in the same order: none is
\* added, removed or moved.
C6_ShapePreserved ==
    (GotJson /\ WellFormed(Json)) =>
        (posts = 1 /\ SameShape(Json.leagues, sent.data))

C6_Witness ==
    /\ fetched = JsonResponse(MixedJson)
    /\ pc = "post"
    /\ Len(inflight.body.data.items) = 2
    /\ Len(inflight.body.data.items[2].games.items) = 3

\* C7: the table holds at most one row, with id "test", and it is the body
\* of the last POST the table accepted; every POST asks for
\* merge-duplicates and carries id "test", the normalized leagues and a
\* UTC timestamp.
C7_SingleRowReplaced ==
    /\ Cardinality(store) <= 1
    /\ \A r \in store : r.id = "test" /\ r = applied
    /\ (applied # NoPayload) => (store = {applied})
    /\ (inflight.method = "POST") =>
          /\ inflight.prefer = "resolution=merge-duplicates"
          /\ inflight.body.id = "test"
          /\ inflight.body.data = Normalize(Json.leagues).data
          /\ inflight.body.updated_at.tick = now
          /\ inflight.body.updated_at.offset = <<"+", "0", "0", ":", "0", "0">>
    /\ (outcome = "ok") => (store = {sent})

C7_Witness ==
    /\ Cardinality(store) = 1
    /\ Cardinality(storeBefore) = 1
    /\ store # storeBefore
    /\ outcome = "ok"

T_E2E_Utc == <<"1", "5", "-", "0", "3", "-", "2", "0", "2", "4", " ", "2", "3", ":", "0", "0">>

T_E2E_Iso == <<"2", "0", "2", "4", "-", "0", "3", "-", "1", "5", "T", "2", "0", ":", "0", "0", ":", "0", "0", "-", "0", "3", ":", "0", "0">>

\* the game of the end-to-end scenario, as sent to the store
EndToEndGame == sent.data.items[1].games.items[1]

\* C8 as claimed: target UTC, start_time "15-03-2024 23:00" and a field
\* start_time_iso ending in +00:00 or Z.
C8_AsClaimed ==
    (posts = 1 /\ fetched = JsonResponse(EndToEndJson)) =>
        /\ EndToEndGame.f["start_time_original"] = Str(T_E2E)
        /\ EndToEndGame.f["start_time"] = Str(T_E2E_Utc)
        /\ EndToEndGame.f["start_time_iso"].k = "str"
        /\ \/ EndsWith(EndToEndGame.f["start_time_iso"].s, <<"+", "0", "0", ":", "0", "0">>)
           \/ EndsWith(EndToEndGame.f["start_time_iso"].s, <<"Z">>)
        /\ sent.id = "test"

\* C8: end to end, for one league L1 with one game G1 whose start_time is
\* "15-03-2024 20:00": the target zone is America/Argentina/Cordoba, at
\* UTC-3 like the source zone, so the game sent to the store has
\* start_time_original = "15-03-2024 20:00", start_time = "15-03-2024 20:00"
\* and start_time_iso_target_tz = "2024-03-15T20:00:00-03:00"; it has no
\* field start_time_iso; the payload's id is "test".
C8_EndToEndCordoba ==
    (posts = 1 /\ fetched = JsonResponse(EndToEndJson)) =>
        /\ EndToEndGame.f["id"] = G1
        /\ EndToEndGame.f["start_time_original"] = Str(T_E2E)
        /\ EndToEndGame.f["start_time"] = Str(T_E2E)
        /\ EndToEndGame.f["start_time_iso_target_tz"] = Str(T_E2E_Iso)
        /\ EndsWith(EndToEndGame.f["start_time_iso_target_tz"].s,
                    <<"-", "0", "3", ":", "0", "0">>)
        /\ EndToEndGame.f["start_time_iso"] = Absent
        /\ sent.id = "test"

C8_Witness ==
    /\ fetched = JsonResponse(EndToEndJson)
    /\ pc = "post"
    /\ inflight.body.data.items[1].games.items[1].f["start_time"] = Str(T_E2E)

\* the game handed to the normalizer on its own, before and after
ArgGame == arg.items[1].games.items[1]

ResGame == res.data.items[1].games.items[1]

ArgTime == Strptime(ArgGame.f["start_time"].s)

\* the fixed offset between the two zones: both are at UTC-3 today
FixedOffset == Cordoba[Len(Cordoba)].off - BuenosAires[Len(BuenosAires)].off

\* the civil time t exists in the source zone (its clocks did not skip it)
ExistsInSource(t) == Possible(BuenosAires, t) # {}

\* the target zone's offset less the source zone's, at the instant t names
OffsetDifference(t) ==
    InfoAt(Cordoba, Localize(BuenosAires, t).utc).off - Localize(BuenosAires, t).off

EmptyBody == IsSuccess(fetched.status) /\ fetched.body.k \in {"empty", "blank"}

\* C10 as claimed: an empty body is handled as a failure class of its own,
\* apart from the decode error, the missing key and the catch-all.
C10_AsClaimed ==
    EmptyBody =>
        /\ outcome \notin {"JSONDecodeError", "KeyError", "Exception"}
        /\ posts = 0

\* C10: an answer with a successful status and an empty or blank body ends
\* the cycle before the store is called; the ValueError raised for it has
\* no except clause of its own and is handled by the catch-all clause
\* (except Exception), like any unexpected error.
C10_EmptyBodyCaughtByCatchAll ==
    EmptyBody =>
        /\ outcome = "Exception"
        /\ OuterHandler("ValueError") = "Exception"
        /\ posts = 0
        /\ sent = NoPayload
        /\ inflight.method # "POST"
        /\ store = storeBefore
        /\ CycleOver

C10_Witness ==
    /\ fetched = Response(200, "blank", NoJson)
    /\ outcome = "Exception"
    /\ pc = "sleep"
    /\ store # {}

\* C11: at every moment at most one client session is open and it is that
\* of the one request awaited: the GET's while the GET is awaited, the
\* POST's while the POST is awaited, none otherwise; a cycle issues one
\* GET and at most one POST; the POST's session is opened only once the
\* GET's is closed, and a cycle starts only when the previous one has
\* completed (no request awaited, no session open).
C11_OneRequestOneCycle ==
    /\ [](/\ Cardinality(sessions) <= 1
          /\ (pc = "get") <=> (inflight.method = "GET")
          /\ (pc = "post") <=> (inflight.method = "POST")
          /\ (pc \notin {"get", "post"}) <=> (inflight = NoRequest)
          /\ sessions = (IF pc \in {"get", "post"} THEN {pc} ELSE {})
          /\ gets <= 1
          /\ posts <= 1
          /\ (posts = 1) => (gets = 1))
    /\ [][(pc' = "get" /\ pc # "get")
            => (pc = "loop" /\ sessions = {} /\ inflight = NoRequest)]_vars
    /\ [][("post" \in sessions' /\ "post" \notin sessions)
            => ("get" \in sessions /\ "get" \notin sessions')]_vars

C11_Witness ==
    /\ pc = "post"
    /\ sessions = {"post"}
    /\ inflight.method = "POST"
    /\ now = 2
    /\ lastPosts = 1

\* the decoded answer is an object that has the key "leagues"
HasLeagues == GotJson /\ Json.k = "map" /\ Json.has

\* C12 as claimed: for every decoded answer that has a "leagues" field,
\* whatever the shape of its value and of its league and game elements,
\* the conversion loop raises nothing and the cycle issues its POST.
C12_AsClaimed ==
    HasLeagues => (Normalize(Json.leagues).raised = "none" /\ posts = 1)

\* a cycle whose second league is null: the loop raised TypeError at the
\* test 'games' in league, the catch-all clause ran and nothing was posted
C12_Witness ==
    /\ fetched = JsonResponse(NotALeagueJson)
    /\ Normalize(Json.leagues).raised = "TypeError"
    /\ outcome = "Exception"
    /\ posts = 0
    /\ pc = "sleep"

\* the text has the strict shape DD-MM-YYYY HH:MM: sixteen characters, two
\* digits for day, month, hour and minute, four for the year
StrictShape(s) ==
    /\ Len(s) = 16
    /\ \A i \in {1, 2, 4, 5, 7, 8, 9, 10, 12, 13, 15, 16} : IsDigit(s[i])
    /\ s[3] = "-"
    /\ s[6] = "-"
    /\ s[11] = " "
    /\ s[14] = ":"

\* C13 as claimed: a start_time string that does not have the strict
\* zero-padded shape DD-MM-YYYY HH:MM, such as "1-3-2024 5:07", is a parse
\* failure: the game is sent to the store as it was received.
C13_AsClaimed ==
    (HasLeagues /\ posts = 1) =>
        \A p \in GamePositions(Json.leagues.items) :
            (/\ HasTimeString(GameAt(Json.leagues.items, p))
             /\ ~StrictShape(GameAt(Json.leagues.items, p).f["start_time"].s))
                => GameAt(sent.data.items, p) = GameAt(Json.leagues.items, p)

T_Unpadded_Out == <<"0", "1", "-", "0", "3", "-", "2", "0", "2", "4", " ", "0", "5", ":", "0", "7">>

\* the game with start_time "1-3-2024 5:07" was converted without a warning
C13_Witness ==
    /\ fetched = JsonResponse(MixedJson)
    /\ pc = "post"
    /\ ~StrictShape(T_Unpadded)
    /\ GameAt(Json.leagues.items, <<2, 1>>).f["start_time"] = Str(T_Unpadded)
    /\ GameAt(sent.data.items, <<2, 1>>).f["start_time"] = Str(T_Unpadded_Out)
    /\ GameAt(sent.data.items, <<2, 1>>).f["start_time_original"] = Str(T_Unpadded)
    /\ warnings = <<>>

\* the three fields the write-back assigns
StartTimeFields == {"start_time", "start_time_original", "start_time_iso_target_tz"}

\* C14: in the payload of an answer whose leagues and games are mappings,
\* every league keeps its id and every game keeps the value of every
\* field other than the three start-time fields; a game that is converted
\* has start_time_original equal to the start_time received and a string
\* in start_time and in start_time_iso_target_tz; a game that is skipped,
\* fails to parse or cannot be converted is equal to the game received.
C14_OnlyStartTimeFieldsChange ==
    (GotJson /\ WellFormed(Json)) =>
        /\ posts = 1
        /\ SameShape(Json.leagues, sent.data)
        /\ \A i \in 1..Len(Json.leagues.items) :
              /\ sent.data.items[i].id = Json.leagues.items[i].id
              /\ sent.data.items[i].games.k = Json.leagues.items[i].games.k
        /\ \A p \in GamePositions(Json.leagues.items) :
              /\ \A n \in GameFields \ StartTimeFields :
                    GameAt(sent.data.items, p).f[n] = GameAt(Json.leagues.items, p).f[n]
              /\ Convertible(GameAt(Json.leagues.items, p)) =>
                    /\ GameAt(sent.data.items, p).f["start_time_original"]
                          = GameAt(Json.leagues.items, p).f["start_time"]
                    /\ GameAt(sent.data.items, p).f["start_time"].k = "str"
                    /\ GameAt(sent.data.items, p).f["start_time_iso_target_tz"].k = "str"
              /\ ~Convertible(GameAt(Json.leagues.items, p)) =>
                    GameAt(sent.data.items, p) = GameAt(Json.leagues.items, p)

C14_Witness ==
    /\ fetched = JsonResponse(MalformedJson)
    /\ pc = "post"
    /\ GameAt(sent.data.items, <<1, 3>>).f["id"] = G3
    /\ GameAt(sent.data.items, <<1, 3>>).f["start_time_original"] = Str(T_Evening)
    /\ GameAt(sent.data.items, <<1, 3>>).f["start_time_iso"] = Absent
    /\ GameAt(sent.data.items, <<1, 1>>) = Game(G1, Str(T_BadDate))

\* C15: a cycle issues exactly one GET and at most one POST; the POST is
\* issued only on an answer with a successful status and a decodable body
\* that has "leagues" and whose conversion loop finished, and carries that
\* loop's result; a request is issued only when a cycle begins (the GET)
\* and when the GET's answer leads to the POST, so that a cycle which
\* failed awaits nothing more: the next request is the next cycle's GET.
C15_NoRetryWithinCycle ==
    /\ [](/\ gets = (IF now = 0 THEN 0 ELSE 1)
          /\ posts <= 1
          /\ (posts = 1) => HasLeagues
          /\ (pc = "post") =>
                /\ Normalize(Json.leagues).raised = "none"
                /\ sent.data = Normalize(Json.leagues).data)
    /\ [][(gets' # gets) => (pc = "loop" /\ now' = now + 1)]_vars
    /\ [][(posts' # posts) =>
             \/ (pc = "loop" /\ now' = now + 1 /\ posts' = 0)
             \/ (pc = "get" /\ pc' = "post" /\ now' = now /\ posts' = posts + 1)]_vars
    /\ [][(inflight' # inflight /\ inflight' # NoRequest) =>
             \/ (pc = "loop" /\ now' = now + 1 /\ inflight' = GetRequest)
             \/ (pc = "get" /\ pc' = "post" /\ now' = now
                 /\ inflight' = PostRequest(sent'))]_vars
    /\ [][(outcome' # outcome /\ outcome' \notin {"none", "ok"}) =>
             (pc' \notin {"get", "post"} /\ inflight' = NoRequest /\ now' = now)]_vars
    /\ [][(pc' = "get") => (pc = "loop")]_vars

C15_Witness ==
    /\ pc = "sleep"
    /\ outcome = "HTTPStatusError"
    /\ gets = 1
    /\ posts = 1
    /\ inflight = NoRequest
    /\ store = storeBefore

\* C16: an operator interrupt can be delivered at any moment of the
\* inter-cycle sleep; it ends the sleep without a further cycle, the entry
\* point prints "Script detenido por el usuario." and the process ends
\* with status 0; once stopped, nothing changes any more: no cycle starts
\* and no GET or POST is issued.
C16_InterruptStopsCleanly ==
    /\ []((pc = "sleep") => ENABLED Interrupt)
    /\ []((pc = "stopped") =>
             /\ exitCode = 0
             /\ printed = "Script detenido por el usuario."
             /\ inflight = NoRequest
             /\ sessions = {})
    /\ []((printed # "") => (pc = "stopped"))
    /\ [][(pc = "sleep" /\ pc' = "stopped") =>
             /\ printed' = "Script detenido por el usuario."
             /\ exitCode' = 0
             /\ UNCHANGED <<now, gets, posts, waited, store, outcome>>]_vars
    /\ [][(pc = "sleep") => (pc' \in {"loop", "stopped"})]_vars
    /\ [][pc # "stopped"]_vars

\* stopped in the sleep that follows a cycle that ended well
C16_Witness ==
    /\ pc = "stopped"
    /\ outcome = "ok"
    /\ waited = 0
    /\ store # {}
    /\ printed = "Script detenido por el usuario."
    /\ exitCode = 0

\* one conversion of the civil time a start_time string names
SingleConversion(s) ==
    Strftime(Wall(Astimezone(Localize(promiedos_timezone, Strptime(s).t),
                             target_timezone)))

\* every converted game of the leagues list ls shows one conversion of the
\* string kept in start_time_original
ShiftedOnce(ls) ==
    \A p \in GamePositions(ls) :
        (/\ GameAt(ls, p).k = "map"
         /\ GameAt(ls, p).f["start_time_iso_target_tz"].k = "str")
            => /\ GameAt(ls, p).f["start_time_original"].k = "str"
               /\ Strptime(GameAt(ls, p).f["start_time_original"].s).ok
               /\ GameAt(ls, p).f["start_time"]
                     = Str(SingleConversion(GameAt(ls, p).f["start_time_original"].s))

T_Winter91_Out == <<"0", "1", "-", "0", "6", "-", "1", "9", "9", "1", " ", "1", "1", ":", "0", "0">>

FailingVars(e) == {n \in ConfigVars : ~Truthy(e[n])}

\* C18 as claimed: when start-up is refused, the names the error message
\* lists are the variables that fail the check (unset, or set but empty),
\* and there is at least one.
C18_AsClaimed ==
    (pc = "exited") =>
        (missingPrinted # {} /\ missingPrinted = FailingVars(env))

\* start-up refused for an empty API_TO_CONSULT alone: the message lists
\* no name
C18_Witness ==
    /\ pc = "exited"
    /\ exitCode = 1
    /\ env["API_TO_CONSULT"] = "empty"
    /\ FailingVars(env) = {"API_TO_CONSULT"}
    /\ missingPrinted = {}

\* the game out is the game in with all three fields written
AllThreeWritten(in, out) ==
    /\ out.f["start_time_original"] = in.f["start_time"]
    /\ out.f["start_time"] = Str(SingleConversion(in.f["start_time"].s))
    /\ out.f["start_time_iso_target_tz"].k = "str"
    /\ \A n \in GameFields \ StartTimeFields : out.f[n] = in.f[n]

\* every game of the list received either carries, in the list after the
\* conversion loop, all three written fields, or is equal there to the
\* game received, as every game that cannot be converted is
AllOrNothing(received, after) ==
    /\ Len(after) = Len(received)
    /\ \A p \in GamePositions(received) :
          /\ \/ GameAt(after, p) = GameAt(received, p)
             \/ /\ Convertible(GameAt(received, p))
                /\ AllThreeWritten(GameAt(received, p), GameAt(after, p))
          /\ ~Convertible(GameAt(received, p)) => GameAt(after, p) = GameAt(received, p)

\* C19: after the conversion loop, whether it finished (the POST is
\* awaited) or was aborted (the catch-all clause ran), every game of the answer either carries all three written fields (the
\* received string in start_time_original, its conversion in start_time
\* and the ISO field) or is equal to the game received; a game whose
\* start_time fails to parse or cannot be converted is equal to the game
\* received, and what is posted is this list.
C19_WriteBackAllOrNothing ==
    (HasLeagues /\ Json.leagues.k = "list" /\ (pc = "post" \/ outcome = "Exception")) =>
        /\ AllOrNothing(Json.leagues.items, Normalize(Json.leagues).data.items)
        /\ (pc = "post") => AllOrNothing(Json.leagues.items, inflight.body.data.items)

\* both games of the answer fail in localize (OverflowError, caught by the
\* second inner clause) and are posted as received
C19_Witness ==
    /\ fetched = JsonResponse(ExtremesJson)
    /\ pc = "post"
    /\ warnings = <<"unexpected", "unexpected">>
    /\ GameAt(sent.data.items, <<1, 1>>) = Game(G1, Str(T_FirstDay))
    /\ GameAt(sent.data.items, <<1, 2>>) = Game(G2, Str(T_LastDay))

=============================================================================
